---- MODULE Spec2Model ----
(***************************************************************************)
(* A model of the modsite package (module.go, forge.go, site.go): the      *)
(* go-import / go-source tag values of a Module, the GitForgeModule        *)
(* constructor, and BuildSite, which places one page per module in a map   *)
(* from file path to page and adds an index page.                          *)
(*                                                                         *)
(* A Go string is a sequence of one-character strings, so that prefixes,   *)
(* suffixes, joining, splitting and path cleaning are computed and not     *)
(* assumed.                                                                *)
(***************************************************************************)
EXTENDS Integers, Sequences, FiniteSets, TLC

VARIABLES
    url,        \* BuildSite: the url argument (the base of the site)
    modules,    \* BuildSite: the modules argument
    pc,         \* BuildSite: "call", "loop" or "done"; "idle" outside BuildSite
    idx,        \* BuildSite: how many modules the range loop has passed
    files,      \* BuildSite: the named result files (a map, possibly nil)
    urls,       \* BuildSite: the local map urls
    err,        \* BuildSite: the named result err
    args,       \* a call of a Module method or of GitForgeModule: its input
    op,         \* ... the function called ("none" before the call)
    result      \* ... what it returned

vars == <<url, modules, pc, idx, files, urls, err, args, op, result>>

siteVars == <<url, modules, pc, idx, files, urls, err>>

callVars == <<args, op, result>>

----------------------------------------------------------------------------
(* Bounds of the model.                                                    *)

\* The longest modules argument BuildSite is called with.
MaxModules == 3

\* The most ".git" and "/" pieces appended to a repository URL.
MaxSuffixes == 2

----------------------------------------------------------------------------
(* The package strings: prefixes, suffixes, joining.                       *)

\* unicode.IsSpace, on the characters the model uses.
IsSpace(c) == c \in {" ", "\t", "\n", "\r", "\f"}

\* strings.ContainsFunc(s, unicode.IsSpace)
ContainsSpace(s) == \E i \in 1..Len(s) : IsSpace(s[i])

HasPrefix(s, prefix) ==
    /\ Len(s) >= Len(prefix)
    /\ SubSeq(s, 1, Len(prefix)) = prefix

HasSuffix(s, suffix) ==
    /\ Len(s) >= Len(suffix)
    /\ SubSeq(s, Len(s) - Len(suffix) + 1, Len(s)) = suffix

TrimPrefix(s, prefix) ==
    IF HasPrefix(s, prefix) THEN SubSeq(s, Len(prefix) + 1, Len(s)) ELSE s

TrimSuffix(s, suffix) ==
    IF HasSuffix(s, suffix) THEN SubSeq(s, 1, Len(s) - Len(suffix)) ELSE s

\* strings.Join(elems, sep)
RECURSIVE Join(_, _)
Join(elems, sep) ==
    IF Len(elems) = 0 THEN <<>>
    ELSE IF Len(elems) = 1 THEN elems[1]
    ELSE elems[1] \o sep \o Join(Tail(elems), sep)

----------------------------------------------------------------------------
(* path/filepath: Clean and Join on a '/'-separated path.                  *)

\* The ".." case of Clean backing up over the last element of out:
\* out.w--; for out.w > dotdot && out.index(out.w) != '/' { out.w-- }
RECURSIVE CleanBacktrack(_, _, _)
CleanBacktrack(out, w, dotdot) ==
    IF w > dotdot /\ out[w + 1] # "/"
    THEN CleanBacktrack(out, w - 1, dotdot)
    ELSE SubSeq(out, 1, w)

\* The index after the path element that starts at r.
RECURSIVE ElementEnd(_, _)
ElementEnd(path, r) ==
    IF r <= Len(path) /\ path[r] # "/" THEN ElementEnd(path, r + 1) ELSE r

\* The loop of Clean: r is the next character of path to read (from 1), out
\* the text written so far, dotdot the length of out that ".." cannot remove.
RECURSIVE CleanLoop(_, _, _, _, _)
CleanLoop(path, rooted, r, out, dotdot) ==
    LET n == Len(path) IN
    IF r > n THEN out
    ELSE IF path[r] = "/" THEN CleanLoop(path, rooted, r + 1, out, dotdot)
    ELSE IF path[r] = "." /\ (r = n \/ path[r + 1] = "/")
    THEN CleanLoop(path, rooted, r + 1, out, dotdot)
    ELSE IF path[r] = "." /\ path[r + 1] = "." /\ (r + 1 = n \/ path[r + 2] = "/")
    THEN IF Len(out) > dotdot
         THEN CleanLoop(path, rooted, r + 2,
                        CleanBacktrack(out, Len(out) - 1, dotdot), dotdot)
         ELSE IF ~rooted
         THEN LET o2 == (IF Len(out) > 0 THEN out \o <<"/">> ELSE out)
                            \o <<".", ".">>
              IN  CleanLoop(path, rooted, r + 2, o2, Len(o2))
         ELSE CleanLoop(path, rooted, r + 2, out, dotdot)
    ELSE LET o1 == IF (rooted /\ Len(out) # 1) \/ (~rooted /\ Len(out) # 0)
                   THEN out \o <<"/">> ELSE out
             e  == ElementEnd(path, r)
         IN  CleanLoop(path, rooted, e, o1 \o SubSeq(path, r, e - 1), dotdot)

\* filepath.Clean
Clean(path) ==
    IF Len(path) = 0 THEN <<".">>
    ELSE LET rooted == path[1] = "/"
             res == CleanLoop(path, rooted,
                              IF rooted THEN 2 ELSE 1,
                              IF rooted THEN <<"/">> ELSE <<>>,
                              IF rooted THEN 1 ELSE 0)
         IN  IF Len(res) = 0 THEN <<".">> ELSE res

\* filepath.Join(a, b): empty elements are ignored, the result is cleaned.
FilepathJoin(a, b) ==
    IF Len(a) > 0 THEN Clean(a \o <<"/">> \o b)
    ELSE IF Len(b) > 0 THEN Clean(b)
    ELSE <<>>

----------------------------------------------------------------------------
(* String literals of the source.                                          *)

IndexHTML == <<"i", "n", "d", "e", "x", ".", "h", "t", "m", "l">>

DotGit == <<".", "g", "i", "t">>

Slash == <<"/">>

Space == <<" ">>

Underscore == <<"_">>

Git == <<"g", "i", "t">>

TreePart == <<"/", "t", "r", "e", "e", "/">>

BlobPart == <<"/", "b", "l", "o", "b", "/">>

DirPlaceholder == <<"{", "/", "d", "i", "r", "}">>

FilePlaceholder ==
    <<"/", "{", "f", "i", "l", "e", "}", "#", "L", "{", "l", "i", "n", "e", "}">>

PkgGoDev ==
    <<"h", "t", "t", "p", "s", ":", "/", "/", "p", "k", "g", ".", "g", "o", ".",
      "d", "e", "v", "/">>

supportedVCS ==
    { <<"b", "z", "r">>, <<"f", "o", "s", "s", "i", "l">>, Git,
      <<"h", "g">>, <<"s", "v", "n">> }

----------------------------------------------------------------------------
(* module.go                                                               *)

\* type Module
Module(importPath, vcsType, repoURL, homePage, dirTemplate, fileTemplate) ==
    [ImportPath |-> importPath, VCSType |-> vcsType, RepoURL |-> repoURL,
     HomePage |-> homePage, DirectoryLinkTemplate |-> dirTemplate,
     FileLinkTemplate |-> fileTemplate]

\* ValidateGoImport with the repository URL only required to be non-empty.
ValidateGoImport_AnyRepoURL(mod) ==
    IF mod.ImportPath = <<>> \/ ContainsSpace(mod.ImportPath)
    THEN "invalid module name"
    ELSE IF mod.VCSType \notin supportedVCS
    THEN "unsupported VCS"
    ELSE IF mod.RepoURL = <<>>
    THEN "invalid VCS URL"
    ELSE "nil"

\* An error value is the text of the errors.New it comes from; "nil" is nil.
ValidateGoImport(mod) ==
    IF mod.ImportPath = <<>> \/ ContainsSpace(mod.ImportPath)
    THEN "invalid module name"
    ELSE IF mod.VCSType \notin supportedVCS
    THEN "unsupported VCS"
    ELSE IF mod.RepoURL = <<>> \/ ContainsSpace(mod.RepoURL)
    THEN "invalid VCS URL"
    ELSE "nil"

\* GoImport joining the fields without validating them first.
GoImport_Unchecked(mod) ==
    Join(<<mod.ImportPath, mod.VCSType, mod.RepoURL>>, Space)

GoImport(mod) ==
    IF ValidateGoImport(mod) # "nil" THEN <<>>
    ELSE Join(<<mod.ImportPath, mod.VCSType, mod.RepoURL>>, Space)

\* GoSource without the "_" that stands for an empty home page.
GoSource_NoUnderscore(mod) ==
    IF mod.ImportPath = <<>> \/ ContainsSpace(mod.ImportPath) THEN <<>>
    ELSE IF ContainsSpace(mod.HomePage) THEN <<>>
    ELSE IF mod.DirectoryLinkTemplate = <<>>
            \/ ContainsSpace(mod.DirectoryLinkTemplate)
    THEN <<>>
    ELSE IF mod.FileLinkTemplate = <<>> \/ ContainsSpace(mod.FileLinkTemplate)
    THEN <<>>
    ELSE mod.ImportPath \o Space \o mod.HomePage \o Space
             \o mod.DirectoryLinkTemplate \o Space \o mod.FileLinkTemplate

GoSource(mod) ==
    IF mod.ImportPath = <<>> \/ ContainsSpace(mod.ImportPath) THEN <<>>
    ELSE LET homePage == IF mod.HomePage = <<>> THEN Underscore ELSE mod.HomePage
         IN
         IF ContainsSpace(homePage) THEN <<>>
         ELSE IF mod.DirectoryLinkTemplate = <<>>
                 \/ ContainsSpace(mod.DirectoryLinkTemplate)
         THEN <<>>
         ELSE IF mod.FileLinkTemplate = <<>> \/ ContainsSpace(mod.FileLinkTemplate)
         THEN <<>>
         ELSE mod.ImportPath \o Space \o homePage \o Space
                  \o mod.DirectoryLinkTemplate \o Space \o mod.FileLinkTemplate

ValidateGoSource(mod) ==
    IF mod.ImportPath = <<>> \/ ContainsSpace(mod.ImportPath)
    THEN "invalid module name"
    ELSE IF mod.HomePage # <<>> /\ ContainsSpace(mod.HomePage)
    THEN "invalid home page"
    ELSE IF mod.DirectoryLinkTemplate = <<>>
            \/ ContainsSpace(mod.DirectoryLinkTemplate)
    THEN "invalid directory link template"
    ELSE IF mod.FileLinkTemplate = <<>> \/ ContainsSpace(mod.FileLinkTemplate)
    THEN "invalid file link template"
    ELSE "nil"

----------------------------------------------------------------------------
(* forge.go                                                                *)

\* GitForgeModule trimming the "/" before the ".git".
GitForgeModule_SlashFirst(importPath, repoURL, ref) ==
    LET u == TrimSuffix(TrimSuffix(repoURL, Slash), DotGit)
    IN  Module(importPath, Git, u, u,
               u \o TreePart \o ref \o DirPlaceholder,
               u \o BlobPart \o ref \o DirPlaceholder \o FilePlaceholder)

GitForgeModule(importPath, repoURL, ref) ==
    LET u == TrimSuffix(TrimSuffix(repoURL, DotGit), Slash)
    IN  Module(importPath, Git, u, u,
               u \o TreePart \o ref \o DirPlaceholder,
               u \o BlobPart \o ref \o DirPlaceholder \o FilePlaceholder)

----------------------------------------------------------------------------
(* site.go                                                                 *)

\* The index and footer arguments of BuildSite: opaque HTML.
indexContent == "index content"

footerContent == "footer content"

\* A Go map: nil, or a function from its keys to its values.
NilMap == [nil |-> TRUE, m |-> <<>>]

MakeMap == [nil |-> FALSE, m |-> <<>>]

MapHas(mp, k) == k \in DOMAIN mp.m

MapPut(mp, k, v) ==
    [nil |-> FALSE,
     m |-> [x \in (DOMAIN mp.m) \cup {k} |-> IF x = k THEN v ELSE mp.m[x]]]

\* An error of BuildSite: the message of its fmt.Errorf, the %q argument and
\* the wrapped error. NoError is nil.
Error(msg, arg, cause) == [msg |-> msg, arg |-> arg, cause |-> cause]

NoError == Error("nil", <<>>, "nil")

HomePageURL(mod) ==
    IF mod.HomePage # <<>> /\ mod.HomePage # Underscore
    THEN mod.HomePage
    ELSE PkgGoDev \o mod.ImportPath

\* siteModuleTemplate.Execute: the text of a page is the template with the
\* context it was executed on; a well-formed template does not fail.
siteModuleTemplateExecute(ctx) ==
    [err |-> "nil", text |-> [template |-> "site_module.html", ctx |-> ctx]]

\* siteIndexTemplate.Execute
siteIndexTemplateExecute(ctx) ==
    [err |-> "nil", text |-> [template |-> "site_index.html", ctx |-> ctx]]

\* Module.RenderSite: the error, and what was written to w.
RenderSite(mod, footer) ==
    IF ValidateGoImport(mod) # "nil"
    THEN [err |-> ValidateGoImport(mod), text |-> <<>>]
    ELSE siteModuleTemplateExecute(
             [Module |-> mod, Footer |-> footer, GoImport |-> GoImport(mod),
              GoSource |-> GoSource(mod), HomePageURL |-> HomePageURL(mod)])

buildIndex(u, content, footer, mods) ==
    siteIndexTemplateExecute(
        [URL |-> u, Modules |-> mods, Content |-> content, Footer |-> footer])

\* getModuleHTMLPath testing the prefix against the base as given.
getModuleHTMLPath_RawBase(mod, base) ==
    LET realBase == TrimPrefix(TrimSuffix(base, Slash), Slash)
    IN  IF ~HasPrefix(mod.ImportPath, base)
        THEN [path |-> <<>>, ok |-> FALSE]
        ELSE [path |-> FilepathJoin(
                           TrimSuffix(SubSeq(mod.ImportPath, Len(realBase) + 1,
                                             Len(mod.ImportPath)), Slash),
                           IndexHTML),
              ok |-> TRUE]

\* getModuleHTMLPath joining the whole import path, base included.
getModuleHTMLPath_KeepBase(mod, base) ==
    LET realBase == TrimPrefix(TrimSuffix(base, Slash), Slash)
    IN  IF ~HasPrefix(mod.ImportPath, realBase)
        THEN [path |-> <<>>, ok |-> FALSE]
        ELSE [path |-> FilepathJoin(TrimSuffix(mod.ImportPath, Slash), IndexHTML),
              ok |-> TRUE]

getModuleHTMLPath(mod, base) ==
    LET realBase == TrimPrefix(TrimSuffix(base, Slash), Slash)
    IN  IF ~HasPrefix(mod.ImportPath, realBase)
        THEN [path |-> <<>>, ok |-> FALSE]
        ELSE [path |-> FilepathJoin(
                           TrimSuffix(SubSeq(mod.ImportPath, Len(realBase) + 1,
                                             Len(mod.ImportPath)), Slash),
                           IndexHTML),
              ok |-> TRUE]

\* "return files, err": the pages stored so far are returned with the error.
ReturnError_Partial(e) ==
    /\ files' = files
    /\ err' = e
    /\ pc' = "done"
    /\ UNCHANGED idx

\* return nil, err
ReturnError(e) ==
    /\ files' = NilMap
    /\ err' = e
    /\ pc' = "done"
    /\ UNCHANGED idx

\* files = make(...); urls := make(...)
BuildSiteEnter ==
    /\ pc = "call"
    /\ files' = MakeMap
    /\ urls' = MakeMap
    /\ pc' = "loop"
    /\ UNCHANGED <<url, modules, idx, err, callVars>>

\* The loop looking for the duplicate in urls, by import path, and not in
\* files, by destination.
BuildSiteLoop_DuplicateByImportPath ==
    /\ pc = "loop"
    /\ idx < Len(modules)
    /\ LET mod  == modules[idx + 1]
           got  == getModuleHTMLPath(mod, url)
           dest == got.path
           page == RenderSite(mod, footerContent)
       IN  IF ~got.ok
           THEN /\ ReturnError(Error("failed to get module path", mod.ImportPath, "nil"))
                /\ UNCHANGED urls
           ELSE /\ urls' = MapPut(urls, mod.ImportPath, TrimSuffix(dest, IndexHTML))
                /\ IF MapHas(urls, mod.ImportPath)
                   THEN ReturnError(Error("duplicate destination path", dest, "nil"))
                   ELSE IF page.err # "nil"
                   THEN ReturnError(Error("failed to render html", mod.ImportPath,
                                          page.err))
                   ELSE /\ files' = MapPut(files, dest, page.text)
                        /\ idx' = idx + 1
                        /\ UNCHANGED <<pc, err>>
    /\ UNCHANGED <<url, modules, callVars>>

\* One pass of "for _, mod := range modules".
BuildSiteLoop ==
    /\ pc = "loop"
    /\ idx < Len(modules)
    /\ LET mod  == modules[idx + 1]
           got  == getModuleHTMLPath(mod, url)
           dest == got.path
           page == RenderSite(mod, footerContent)
       IN  IF ~got.ok
           THEN /\ ReturnError(Error("failed to get module path", mod.ImportPath, "nil"))
                /\ UNCHANGED urls
           ELSE /\ urls' = MapPut(urls, mod.ImportPath, TrimSuffix(dest, IndexHTML))
                /\ IF MapHas(files, dest)
                   THEN ReturnError(Error("duplicate destination path", dest, "nil"))
                   ELSE IF page.err # "nil"
                   THEN ReturnError(Error("failed to render html", mod.ImportPath,
                                          page.err))
                   ELSE /\ files' = MapPut(files, dest, page.text)
                        /\ idx' = idx + 1
                        /\ UNCHANGED <<pc, err>>
    /\ UNCHANGED <<url, modules, callVars>>

\* The return without the index page.
BuildSiteReturn_NoIndex ==
    /\ pc = "loop"
    /\ idx = Len(modules)
    /\ err' = NoError
    /\ pc' = "done"
    /\ UNCHANGED <<files, idx, url, modules, urls, callVars>>

\* The return storing the index page whether or not "index.html" is taken.
BuildSiteReturn_AlwaysIndex ==
    /\ pc = "loop"
    /\ idx = Len(modules)
    /\ files' = MapPut(files, IndexHTML,
                       buildIndex(url, indexContent, footerContent, urls.m).text)
    /\ err' = NoError
    /\ pc' = "done"
    /\ UNCHANGED <<idx, url, modules, urls, callVars>>

\* After the loop: build an index page if it doesn't exist, and return.
BuildSiteReturn ==
    /\ pc = "loop"
    /\ idx = Len(modules)
    /\ LET index == buildIndex(url, indexContent, footerContent, urls.m)
       IN  IF ~MapHas(files, IndexHTML)
           THEN IF index.err # "nil"
                THEN ReturnError(Error("failed to render index content", <<>>,
                                       index.err))
                ELSE /\ files' = MapPut(files, IndexHTML, index.text)
                     /\ err' = NoError
                     /\ pc' = "done"
                     /\ UNCHANGED idx
           ELSE /\ err' = NoError
                /\ pc' = "done"
                /\ UNCHANGED <<files, idx>>
    /\ UNCHANGED <<url, modules, urls, callVars>>

----------------------------------------------------------------------------
(* The inputs.                                                             *)

ExampleOrg == <<"e", "x", "a", "m", "p", "l", "e", ".", "o", "r", "g">>

ExampleMod == ExampleOrg \o <<"/", "m", "o", "d">>

ExampleModURL == <<"h", "t", "t", "p", "s", ":", "/", "/">> \o ExampleMod

ExampleLibURL ==
    <<"h", "t", "t", "p", "s", ":", "/", "/", "h", ".", "o", "r", "g", "/",
      "l", "i", "b", ".", "g", "i", "t">>

Main == <<"m", "a", "i", "n">>

\* The url arguments: the base as it is, with slashes around it, with two
\* trailing slashes (one is left after normalisation), and the empty base.
Bases ==
    { ExampleOrg, Slash \o ExampleOrg \o Slash, ExampleOrg \o <<"/", "/">>, <<>> }

PlainModule(importPath, vcsType) ==
    Module(importPath, vcsType, ExampleModURL, <<>>, <<>>, <<>>)

ModulePool ==
    { PlainModule(ExampleMod, Git),
      PlainModule(ExampleMod \o Slash, Git),
      PlainModule(ExampleMod, <<"c", "v", "s">>),
      PlainModule(ExampleOrg, Git),
      PlainModule(ExampleOrg \o Slash, <<"h", "g">>),
      PlainModule(ExampleOrg \o <<".">>, Git),
      PlainModule(<<"o", "t", "h", "e", "r", ".", "n", "e", "t", "/", "m", "o", "d">>, Git),
      PlainModule(ExampleOrg \o <<"/", "a", " ", "b">>, Git),
      GitForgeModule(ExampleOrg \o <<"/", "l", "i", "b">>, ExampleLibURL, Main),
      GitForgeModule(ExampleOrg \o <<"/", "m", "o", "d", "/", ".", ".", "/", "l", "i", "b">>,
                     ExampleLibURL, Main) }

RECURSIVE SeqsUpTo(_, _)
SeqsUpTo(S, n) ==
    IF n = 0 THEN { <<>> }
    ELSE LET shorter == SeqsUpTo(S, n - 1)
         IN  shorter \cup { Append(s, x) : s \in shorter, x \in S }

NoCall ==
    /\ args = <<>>
    /\ op = "none"
    /\ result = <<>>

Init ==
    /\ url \in Bases
    /\ modules \in SeqsUpTo(ModulePool, MaxModules)
    /\ pc = "call"
    /\ idx = 0
    /\ files = NilMap
    /\ urls = NilMap
    /\ err = NoError
    /\ NoCall

Next ==
    \/ BuildSiteEnter
    \/ BuildSiteLoop
    \/ BuildSiteReturn

\* BuildSite, called on every url and every list of modules of the pool.
Spec == Init /\ [][Next]_vars

----------------------------------------------------------------------------
(* The methods of Module, each called on every module of a field pool.     *)

ImportPathPool ==
    { <<>>, <<"a">>, <<"a", "/", "b">>, <<"a", " ", "b">>, <<"a", "\t">> }

VCSTypePool ==
    supportedVCS \cup { <<>>, <<"c", "v", "s">>, <<"g", "i", "t", " ">> }

RepoURLPool == { <<>>, <<"u">>, <<"u", " ", "v">>, <<"\n", "u">> }

HomePagePool == { <<>>, Underscore, <<"h">>, <<"h", " ", "h">>, <<" ">> }

DirectoryLinkTemplatePool == { <<>>, <<"d">>, <<"d", " ", "d">> }

FileLinkTemplatePool == { <<>>, <<"f">>, <<"f", "\t", "f">> }

NoSite ==
    /\ url = <<>>
    /\ modules = <<>>
    /\ pc = "idle"
    /\ idx = 0
    /\ files = NilMap
    /\ urls = NilMap
    /\ err = NoError

InitModule ==
    /\ NoSite
    /\ \E ip \in ImportPathPool, vcs \in VCSTypePool, repo \in RepoURLPool,
          home \in HomePagePool, dir \in DirectoryLinkTemplatePool,
          file \in FileLinkTemplatePool :
           args = Module(ip, vcs, repo, home, dir, file)
    /\ op = "none"
    /\ result = <<>>

CallGoImport ==
    /\ op = "none"
    /\ op' = "GoImport"
    /\ result' = GoImport(args)
    /\ UNCHANGED <<args, siteVars>>

CallValidateGoImport ==
    /\ op = "none"
    /\ op' = "ValidateGoImport"
    /\ result' = ValidateGoImport(args)
    /\ UNCHANGED <<args, siteVars>>

CallGoSource ==
    /\ op = "none"
    /\ op' = "GoSource"
    /\ result' = GoSource(args)
    /\ UNCHANGED <<args, siteVars>>

CallValidateGoSource ==
    /\ op = "none"
    /\ op' = "ValidateGoSource"
    /\ result' = ValidateGoSource(args)
    /\ UNCHANGED <<args, siteVars>>

NextModule ==
    \/ CallGoImport
    \/ CallValidateGoImport
    \/ CallGoSource
    \/ CallValidateGoSource

SpecModule == InitModule /\ [][NextModule]_vars

----------------------------------------------------------------------------
(* GitForgeModule, called on repository URLs with ".git" and "/" endings.  *)

ForgeStem ==
    <<"h", "t", "t", "p", "s", ":", "/", "/", "h", ".", "o", "r", "g", "/",
      "l", "i", "b">>

ForgeURLPool ==
    { stem \o Join(sfx, <<>>) :
          stem \in { ForgeStem, <<>> },
          sfx \in SeqsUpTo({ DotGit, Slash }, MaxSuffixes) }

RefPool == { Main, <<"v", "1">>, <<>> }

InitForge ==
    /\ NoSite
    /\ \E ip \in { ExampleMod, <<>> }, repo \in ForgeURLPool, ref \in RefPool :
           args = [ImportPath |-> ip, RepoURL |-> repo, ref |-> ref]
    /\ op = "none"
    /\ result = <<>>

CallGitForgeModule ==
    /\ op = "none"
    /\ op' = "GitForgeModule"
    /\ result' = GitForgeModule(args.ImportPath, args.RepoURL, args.ref)
    /\ UNCHANGED <<args, siteVars>>

NextForge == CallGitForgeModule

SpecForge == InitForge /\ [][NextForge]_vars

----------------------------------------------------------------------------
(* The vocabulary of the properties, stated without the operators above.   *)

Whitespace == { " ", "\t", "\n", "\r", "\f" }

WhitespaceFree(s) == \A i \in 1..Len(s) : s[i] \notin Whitespace

NonEmptyToken(s) == Len(s) > 0 /\ WhitespaceFree(s)

EndsWith(s, t) ==
    /\ Len(t) <= Len(s)
    /\ \A i \in 1..Len(t) : s[Len(s) - Len(t) + i] = t[i]

StartsWith(s, t) ==
    /\ Len(t) <= Len(s)
    /\ \A i \in 1..Len(t) : s[i] = t[i]

DropLast(s, n) == [i \in 1..(Len(s) - n) |-> s[i]]

DropFirst(s, n) == [i \in 1..(Len(s) - n) |-> s[i + n]]

\* s split at every occurrence of the character c.
RECURSIVE SplitOn(_, _)
SplitOn(s, c) ==
    IF \A i \in 1..Len(s) : s[i] # c THEN << s >>
    ELSE LET i == CHOOSE k \in 1..Len(s) :
                      s[k] = c /\ \A j \in 1..(k - 1) : s[j] # c
         IN  << [k \in 1..(i - 1) |-> s[k]] >> \o SplitOn(DropFirst(s, i), c)

VCSKinds ==
    { <<"b", "z", "r">>, <<"f", "o", "s", "s", "i", "l">>, <<"g", "i", "t">>,
      <<"h", "g">>, <<"s", "v", "n">> }

CanProduceImportTag(d) ==
    /\ NonEmptyToken(d.ImportPath)
    /\ d.VCSType \in VCSKinds
    /\ NonEmptyToken(d.RepoURL)

CanProduceSourceTag(d) ==
    /\ NonEmptyToken(d.ImportPath)
    /\ WhitespaceFree(d.HomePage)
    /\ NonEmptyToken(d.DirectoryLinkTemplate)
    /\ NonEmptyToken(d.FileLinkTemplate)

----------------------------------------------------------------------------
(* Properties of the Module methods, under SpecModule.                     *)

\* C6: ValidateGoImport returns nil exactly when the import path and the
\* repository URL are non-empty and free of whitespace and the VCS type is one
\* of bzr, fossil, git, hg, svn; the home page and the two link templates
\* never change what it returns; and the error is the one of the first of the
\* three conditions, in that order, that fails.
C6_ValidateGoImport ==
    op = "ValidateGoImport" =>
        /\ (result = "nil") <=> CanProduceImportTag(args)
        /\ \A home \in HomePagePool, dir \in DirectoryLinkTemplatePool,
              file \in FileLinkTemplatePool :
               ValidateGoImport([args EXCEPT !.HomePage = home,
                                             !.DirectoryLinkTemplate = dir,
                                             !.FileLinkTemplate = file]) = result
        /\ result = IF ~NonEmptyToken(args.ImportPath) THEN "invalid module name"
                    ELSE IF args.VCSType \notin VCSKinds THEN "unsupported VCS"
                    ELSE IF ~NonEmptyToken(args.RepoURL) THEN "invalid VCS URL"
                    ELSE "nil"

\* A supported VCS type and a valid import path with a repository URL that
\* holds whitespace: the third condition is the one reported.
C6_Witness ==
    /\ op = "ValidateGoImport"
    /\ NonEmptyToken(args.ImportPath)
    /\ args.VCSType \in VCSKinds
    /\ args.RepoURL # <<>>
    /\ ~WhitespaceFree(args.RepoURL)
    /\ args.HomePage # <<>>
    /\ result = "invalid VCS URL"

\* C7: GoSource returns the import path, the home page ("_" for an empty
\* one), the directory link template and the file link template joined by
\* single spaces exactly when ValidateGoSource returns nil, and the empty
\* string exactly when it does not; ValidateGoSource returns nil exactly when
\* the source tag can be produced; the VCS type and the repository URL never
\* change the value; and with an empty home page the second field of the
\* value split at its spaces is "_".
C7_GoSource ==
    op = "GoSource" =>
        LET valid == ValidateGoSource(args) = "nil"
            home  == IF args.HomePage = <<>> THEN <<"_">> ELSE args.HomePage
            value == args.ImportPath \o <<" ">> \o home \o <<" ">>
                         \o args.DirectoryLinkTemplate \o <<" ">>
                         \o args.FileLinkTemplate
        IN  /\ valid <=> CanProduceSourceTag(args)
            /\ valid <=> (result = value)
            /\ ~valid <=> (result = <<>>)
            /\ \A vcs \in VCSTypePool, repo \in RepoURLPool :
                   GoSource([args EXCEPT !.VCSType = vcs, !.RepoURL = repo]) = result
            /\ (valid /\ args.HomePage = <<>>) =>
                   /\ Len(SplitOn(result, " ")) = 4
                   /\ SplitOn(result, " ")[2] = <<"_">>

\* A module with an empty home page whose source tag has a value, though it
\* cannot produce the import tag.
C7_Witness ==
    /\ op = "GoSource"
    /\ args.HomePage = <<>>
    /\ result # <<>>
    /\ ValidateGoImport(args) # "nil"

\* C8: for a module that can produce the import tag GoImport returns a
\* non-empty value that, split at its spaces, is the list of import path, VCS
\* type and repository URL; for every other module it returns the empty
\* string.
C8_GoImportRoundTrip ==
    op = "GoImport" =>
        IF CanProduceImportTag(args)
        THEN /\ result # <<>>
             /\ SplitOn(result, " ") = <<args.ImportPath, args.VCSType, args.RepoURL>>
        ELSE result = <<>>

\* A module that can produce the import tag, and its value of three fields.
C8_Witness ==
    /\ op = "GoImport"
    /\ CanProduceImportTag(args)
    /\ Len(SplitOn(result, " ")) = 3

----------------------------------------------------------------------------
(* Properties of GitForgeModule, under SpecForge.                          *)

ForgeTemplatesOf(u, ref) ==
    [dir  |-> u \o <<"/", "t", "r", "e", "e", "/">> \o ref
                \o <<"{", "/", "d", "i", "r", "}">>,
     file |-> u \o <<"/", "b", "l", "o", "b", "/">> \o ref
                \o <<"{", "/", "d", "i", "r", "}", "/", "{", "f", "i", "l", "e", "}",
                     "#", "L", "{", "l", "i", "n", "e", "}">>]

\* What GitForgeModule returns apart from how the URL is trimmed: the import
\* path as given, VCS type git, the home page equal to the stored URL, and
\* the two templates built from the stored URL and the ref.
ForgeFieldsFromURL ==
    /\ result.ImportPath = args.ImportPath
    /\ result.VCSType = <<"g", "i", "t">>
    /\ result.HomePage = result.RepoURL
    /\ result.DirectoryLinkTemplate = ForgeTemplatesOf(result.RepoURL, args.ref).dir
    /\ result.FileLinkTemplate = ForgeTemplatesOf(result.RepoURL, args.ref).file

\* C9 as stated: the stored URL is the given one less a trailing ".git" and a
\* trailing "/", so that it ends in neither, and the other fields are built
\* from it.
C9_Original ==
    op = "GitForgeModule" =>
        /\ ForgeFieldsFromURL
        /\ \E cut \in { <<>>, <<".", "g", "i", "t">>, <<"/">>,
                        <<"/", ".", "g", "i", "t">>, <<".", "g", "i", "t", "/">> } :
               args.RepoURL = result.RepoURL \o cut
        /\ ~EndsWith(result.RepoURL, <<".", "g", "i", "t">>)
        /\ ~EndsWith(result.RepoURL, <<"/">>)

\* C9 (amended): the stored URL is the given one with one trailing ".git"
\* removed, if there is one, and then one trailing "/" removed, if there is
\* one; the other fields are built from the stored URL.
C9_GitForgeModule ==
    op = "GitForgeModule" =>
        LET given   == args.RepoURL
            lessGit == IF EndsWith(given, <<".", "g", "i", "t">>)
                       THEN DropLast(given, 4) ELSE given
            trimmed == IF EndsWith(lessGit, <<"/">>)
                       THEN DropLast(lessGit, 1) ELSE lessGit
        IN  /\ ForgeFieldsFromURL
            /\ result.RepoURL = trimmed

\* A URL ending in "/.git": both endings are trimmed.
C9_Witness ==
    /\ op = "GitForgeModule"
    /\ args.RepoURL = ForgeStem \o <<"/", ".", "g", "i", "t">>
    /\ result.RepoURL = ForgeStem
    /\ args.ref # <<>>

----------------------------------------------------------------------------
(* Properties of BuildSite, under Spec.                                    *)

\* The base with one trailing and one leading "/" stripped.
NormalizedBase ==
    LET a == IF EndsWith(url, <<"/">>) THEN DropLast(url, 1) ELSE url
    IN  IF StartsWith(a, <<"/">>) THEN DropFirst(a, 1) ELSE a

Placeable(d) == StartsWith(d.ImportPath, NormalizedBase)

\* The output path BuildSite computes for the i-th descriptor.
OutputPath(i) == getModuleHTMLPath(modules[i], url).path

\* The i-th descriptor is one BuildSite cannot process: it is not placeable,
\* or its path is the path of an earlier descriptor, or it cannot produce the
\* import tag.
Fails(i) ==
    \/ ~Placeable(modules[i])
    \/ \E j \in 1..(i - 1) : OutputPath(j) = OutputPath(i)
    \/ ~CanProduceImportTag(modules[i])

\* The key k of files holds the detail page of descriptor d.
IsPageOf(k, d) ==
    /\ k \in DOMAIN files.m
    /\ files.m[k].template = "site_module.html"
    /\ files.m[k].ctx.Module = d

\* C1: BuildSite returns a map and no error exactly when every descriptor, in
\* input order, is placeable, has a path different from the paths of all
\* earlier descriptors and can produce the import tag; otherwise it returns
\* an error and the nil map, having stopped at the first descriptor that
\* fails.
C1_AllOrNothing ==
    pc = "done" =>
        /\ (err = NoError) <=> (\A i \in 1..Len(modules) : ~Fails(i))
        /\ (err = NoError) =>
               /\ ~files.nil
               /\ idx = Len(modules)
        /\ (err # NoError) =>
               /\ files = NilMap
               /\ idx < Len(modules)
               /\ Fails(idx + 1)
               /\ \A i \in 1..idx : ~Fails(i)

\* A build that fails at its third descriptor, after two pages were stored.
C1_Witness ==
    /\ pc = "done"
    /\ err # NoError
    /\ idx = 2
    /\ files = NilMap

\* Two placeable descriptors of the list compute the same output path.
HasDuplicatePath ==
    \E j \in 1..Len(modules), i \in 1..Len(modules) :
        /\ i < j
        /\ Placeable(modules[i])
        /\ Placeable(modules[j])
        /\ OutputPath(i) = OutputPath(j)

\* The first descriptor whose path is the path of an earlier one.
FirstRepeat ==
    CHOOSE j \in 1..Len(modules) :
        /\ Placeable(modules[j])
        /\ \E i \in 1..(j - 1) :
               Placeable(modules[i]) /\ OutputPath(i) = OutputPath(j)
        /\ \A k \in 1..(j - 1) :
               ~(/\ Placeable(modules[k])
                 /\ \E i \in 1..(k - 1) :
                        Placeable(modules[i]) /\ OutputPath(i) = OutputPath(k))

\* C2 as stated: a list in which two descriptors compute the same output path
\* makes BuildSite fail with the duplicate-destination error and no map.
C2_Original ==
    (pc = "done" /\ HasDuplicatePath) =>
        /\ err.msg = "duplicate destination path"
        /\ files = NilMap

\* C2 (amended): such a list makes BuildSite fail with no map; the error is
\* the duplicate-destination error, naming the repeated path, exactly when
\* every descriptor before the first one that repeats a path is placeable and
\* can produce the import tag.
C2_DuplicateDestination ==
    (pc = "done" /\ HasDuplicatePath) =>
        LET j == FirstRepeat
        IN  /\ files = NilMap
            /\ err # NoError
            /\ (err = Error("duplicate destination path", OutputPath(j), "nil"))
                   <=> (\A k \in 1..(j - 1) :
                            Placeable(modules[k]) /\ CanProduceImportTag(modules[k]))

\* "example.org/mod" and then "example.org/mod/" under the base
\* "example.org": the second is refused as a duplicate of the first.
C2_Witness ==
    /\ pc = "done"
    /\ url = ExampleOrg
    /\ Len(modules) >= 2
    /\ modules[1].ImportPath = ExampleMod
    /\ modules[2].ImportPath = ExampleMod \o <<"/">>
    /\ err.msg = "duplicate destination path"
    /\ err.arg = <<"/", "m", "o", "d", "/">> \o IndexHTML
    /\ files = NilMap

\* C3 as stated: the key of a placeable descriptor's page is a relative path
\* ending in "index.html"; "example.org/mod" under the base "example.org" is
\* stored at "mod/index.html", and an import path equal to the base at
\* "index.html".
C3_Original ==
    \A k \in DOMAIN files.m :
        files.m[k].template = "site_module.html" =>
            LET d == files.m[k].ctx.Module
            IN  Placeable(d) =>
                    /\ k[1] # "/"
                    /\ EndsWith(k, IndexHTML)
                    /\ (d.ImportPath = ExampleMod /\ NormalizedBase = ExampleOrg) =>
                           k = <<"m", "o", "d", "/">> \o IndexHTML
                    /\ d.ImportPath = NormalizedBase => k = IndexHTML

\* A remainder made of plain path elements: after an optional leading "/",
\* elements separated by single "/", none of them empty, "." or "..".
PlainPath(p) ==
    LET parts == SplitOn(p, "/")
    IN  /\ p # <<>>
        /\ \A i \in 1..Len(parts) :
               \/ i = 1 /\ Len(parts) > 1 /\ parts[1] = <<>>
               \/ parts[i] \notin { <<>>, <<".">>, <<".", ".">> }

\* C3 (amended): the key of a placeable descriptor's page is the remainder of
\* the import path after the normalized base, less a trailing "/", followed by
\* "/index.html" when that remainder is made of plain path elements, and
\* "index.html" alone when it is empty; every key ends in "index.html", has no
\* doubled "/", and begins with "/" exactly when the stripped remainder does;
\* "example.org/mod" under the base "example.org" is stored at
\* "/mod/index.html", and an import path equal to the base at "index.html".
C3_OutputPath ==
    \A k \in DOMAIN files.m :
        files.m[k].template = "site_module.html" =>
            LET d == files.m[k].ctx.Module
                remainder == DropFirst(d.ImportPath, Len(NormalizedBase))
                stripped == IF EndsWith(remainder, <<"/">>)
                            THEN DropLast(remainder, 1) ELSE remainder
            IN  Placeable(d) =>
                    /\ EndsWith(k, IndexHTML)
                    /\ \A i \in 1..(Len(k) - 1) : ~(k[i] = "/" /\ k[i + 1] = "/")
                    /\ (k[1] = "/") <=> (stripped # <<>> /\ stripped[1] = "/")
                    /\ stripped = <<>> => k = IndexHTML
                    /\ PlainPath(stripped) => k = stripped \o <<"/">> \o IndexHTML
                    /\ (d.ImportPath = ExampleMod /\ NormalizedBase = ExampleOrg) =>
                           k = <<"/", "m", "o", "d", "/">> \o IndexHTML
                    /\ d.ImportPath = NormalizedBase => k = IndexHTML

\* "example.org/mod" under the base "example.org", stored in a finished build.
C3_Witness ==
    /\ pc = "done"
    /\ err = NoError
    /\ url = ExampleOrg
    /\ \E i \in 1..Len(modules) :
           /\ modules[i].ImportPath = ExampleMod
           /\ IsPageOf(<<"/", "m", "o", "d", "/">> \o IndexHTML, modules[i])

\* C4 as stated: a list holding a descriptor that is not placeable makes
\* BuildSite fail with the cannot-place error naming that import path, and no
\* map.
C4_Original ==
    (pc = "done" /\ \E i \in 1..Len(modules) : ~Placeable(modules[i])) =>
        /\ err.msg = "failed to get module path"
        /\ \E i \in 1..Len(modules) :
               ~Placeable(modules[i]) /\ err.arg = modules[i].ImportPath
        /\ files = NilMap

\* C4 (amended): such a list makes BuildSite fail with no map; the error is
\* the cannot-place error naming the import path of the first descriptor that
\* is not placeable exactly when no descriptor before it fails (each has a
\* path of its own and can produce the import tag).
C4_UnplaceableModule ==
    (pc = "done" /\ \E i \in 1..Len(modules) : ~Placeable(modules[i])) =>
        LET j == CHOOSE i \in 1..Len(modules) :
                     /\ ~Placeable(modules[i])
                     /\ \A k \in 1..(i - 1) : Placeable(modules[k])
        IN  /\ files = NilMap
            /\ err # NoError
            /\ (err = Error("failed to get module path", modules[j].ImportPath, "nil"))
                   <=> (\A k \in 1..(j - 1) : ~Fails(k))

\* A build that stored one page and then met a descriptor it cannot place.
C4_Witness ==
    /\ pc = "done"
    /\ idx = 1
    /\ Len(modules) >= 2
    /\ ~Placeable(modules[2])
    /\ err = Error("failed to get module path", modules[2].ImportPath, "nil")
    /\ files = NilMap

\* Every descriptor can produce the import tag and is placeable, the paths
\* are pairwise distinct, and none of them is "index.html".
DistinctValidPaths ==
    \A i \in 1..Len(modules) :
        /\ CanProduceImportTag(modules[i])
        /\ Placeable(modules[i])
        /\ OutputPath(i) # IndexHTML
        /\ \A j \in 1..(i - 1) : OutputPath(j) # OutputPath(i)

\* C5: for N such descriptors BuildSite succeeds and the map has exactly N+1
\* entries: the page of each descriptor at its path and the index page at
\* "index.html"; for the empty list the one entry is an index of no modules.
C5_PageCount ==
    (pc = "done" /\ DistinctValidPaths) =>
        /\ err = NoError
        /\ ~files.nil
        /\ Cardinality(DOMAIN files.m) = Len(modules) + 1
        /\ \A i \in 1..Len(modules) : IsPageOf(OutputPath(i), modules[i])
        /\ IndexHTML \in DOMAIN files.m
        /\ files.m[IndexHTML].template = "site_index.html"
        /\ Len(modules) = 0 =>
               /\ DOMAIN files.m = { IndexHTML }
               /\ DOMAIN files.m[IndexHTML].ctx.Modules = {}

\* Two such descriptors, and the three pages of their site.
C5_Witness ==
    /\ pc = "done"
    /\ DistinctValidPaths
    /\ Len(modules) = 2
    /\ Cardinality(DOMAIN files.m) = 3

\* The import path is the normalized base, possibly followed by one "/".
IsBase(importPath) ==
    \/ importPath = NormalizedBase
    \/ importPath = NormalizedBase \o <<"/">>

\* The page at "index.html" is the index, and it lists the import path of
\* every descriptor once, each with its output path less "index.html".
IndexListsEveryModule ==
    /\ files.m[IndexHTML].template = "site_index.html"
    /\ LET rows == files.m[IndexHTML].ctx.Modules
       IN  /\ DOMAIN rows = { modules[i].ImportPath : i \in 1..Len(modules) }
           /\ Cardinality(DOMAIN rows) = Len(modules)
           /\ \A i \in 1..Len(modules) :
                  rows[modules[i].ImportPath] \o IndexHTML = OutputPath(i)

\* C10 as stated: a successful build with a descriptor whose import path is
\* the base (possibly followed by one "/") has N entries and that
\* descriptor's page at "index.html"; every other successful build has the
\* index there.
C10_Original ==
    (pc = "done" /\ err = NoError) =>
        /\ IndexHTML \in DOMAIN files.m
        /\ IF \E i \in 1..Len(modules) : IsBase(modules[i].ImportPath)
           THEN /\ Cardinality(DOMAIN files.m) = Len(modules)
                /\ \E i \in 1..Len(modules) :
                       /\ IsBase(modules[i].ImportPath)
                       /\ IsPageOf(IndexHTML, modules[i])
           ELSE IndexListsEveryModule

\* C10 (amended): the index is synthesized exactly when no descriptor's
\* output path is "index.html". A successful build with such a descriptor
\* (its import path is the base, possibly followed by one "/", or the rest of
\* it cleans to nothing, as in the base followed by ".") has N entries and
\* that descriptor's page at "index.html"; every other successful build has
\* N+1 entries and the index there, listing every import path once with its
\* output path less "index.html".
C10_IndexSynthesis ==
    (pc = "done" /\ err = NoError) =>
        /\ IndexHTML \in DOMAIN files.m
        /\ \A i \in 1..Len(modules) :
               IsBase(modules[i].ImportPath) => OutputPath(i) = IndexHTML
        /\ IF \E i \in 1..Len(modules) : OutputPath(i) = IndexHTML
           THEN /\ Cardinality(DOMAIN files.m) = Len(modules)
                /\ \E i \in 1..Len(modules) :
                       /\ OutputPath(i) = IndexHTML
                       /\ IsPageOf(IndexHTML, modules[i])
           ELSE /\ Cardinality(DOMAIN files.m) = Len(modules) + 1
                /\ IndexListsEveryModule

\* The base followed by "." under the base "example.org", beside another
\* module: its page is the one at "index.html".
C10_Witness ==
    /\ pc = "done"
    /\ err = NoError
    /\ url = ExampleOrg
    /\ Len(modules) = 2
    /\ Cardinality(DOMAIN files.m) = 2
    /\ \E i \in 1..2 :
           /\ modules[i].ImportPath = ExampleOrg \o <<".">>
           /\ IsPageOf(IndexHTML, modules[i])

====
